---- MODULE Spec2Model ----
(***************************************************************************)
(* Model of canvas-mcp: the DataAnonymizer (src/src/anonymizer.ts), the    *)
(* CanvasClient gateway and paginator (canvasClient.ts) and the tool       *)
(* handlers that compose them (src/tools/*.ts).                            *)
(*                                                                         *)
(* JavaScript objects are functions from the keys they carry to values;    *)
(* a key that is missing is simply not in the DOMAIN.  The value           *)
(* `undefined` is the string UNDEF.  User ids are naturals, 0 being the    *)
(* falsy id.                                                               *)
(***************************************************************************)
EXTENDS Integers, Sequences, FiniteSets, TLC

VARIABLES
    userNameMap,   \* DataAnonymizer.userNameMap : identity string -> pseudonym
    userCounter,   \* DataAnonymizer.userCounter
    seen,          \* history since the last reset: identities in first-seen order, and every pseudonym each was returned under
    last,          \* history: the last direct anonymizer operation, its input, output and pre-state; whether a reset came just before
    upstreamN,     \* number of records the upstream holds in each collection
    pc,            \* per invocation: "idle", the await it is at (AwaitStates), "done", "error"
    call,          \* per invocation: the entry point that was called and its arguments
    page,          \* per invocation: the local `page` of the page loop
    acc,           \* per invocation: the accumulator (results / students / submissions / assignments)
    out,           \* per invocation: what the caller receives
    requests,      \* per invocation: every HTTP request it issued, in order
    process,       \* the server process: CANVAS_API_TOKEN, how far startup got, exit code
    stderr,        \* the lines the process wrote with console.error, in order
    module         \* upstream: whether the course module is published

anonVars == <<userNameMap, userCounter, seen, last>>
toolVars == <<process, stderr, module, upstreamN, pc, call, page, acc, out, requests>>
vars ==
    <<userNameMap, userCounter, seen, last, upstreamN, pc, call, page, acc, out, requests,
      process, stderr, module>>

----------------------------------------------------------------------------
(* Bounds of the model *)

MaxId == 2          \* user ids range over 0..MaxId (0 is the falsy id)
MaxComments == 2    \* longest submission_comments array drawn as an input
NumProcs == 2       \* tool invocations that may be in flight together
MaxFullPages == 2   \* the upstream collections hold up to MaxFullPages full pages plus a remainder
UpstreamDefaultPerPage == 10   \* page size the upstream uses when a request names none
MaxPerPage == 3     \* per_page arguments of the walks against an arbitrary upstream: 1..MaxPerPage
MaxWalk == 4        \* page requests an arbitrary upstream answers in one walk

----------------------------------------------------------------------------
(* JavaScript values *)

UNDEF == "<undefined>"
Empty == [k \in {} |-> 0]

Digits == <<"0", "1", "2", "3", "4", "5", "6", "7", "8", "9">>

\* Number.prototype.toString / template-literal rendering of a natural
RECURSIVE ToStr(_)
ToStr(n) == IF n < 10 THEN Digits[n + 1] ELSE ToStr(n \div 10) \o Digits[(n % 10) + 1]

Has(obj, k) == k \in DOMAIN obj

\* truthiness of obj[k] for the keys the code tests
TruthyId(user) == Has(user, "id") /\ user["id"] # 0
TruthyEmail(user) == Has(user, "email") /\ user["email"] \notin {"", UNDEF}

Range(s) == {s[i] : i \in DOMAIN s}

----------------------------------------------------------------------------
(* DataAnonymizer, src/src/anonymizer.ts *)

\* The anonymizer state an operation starts from.  An operation takes a record
\* with the fields map, counter and trace and returns one that also carries its
\* result in `out`; trace lists the <<identity, pseudonym>> pairs of the
\* anonymizeUser calls that passed the id guard, in call order.
AnonState == [map |-> userNameMap, counter |-> userCounter, trace |-> << >>]

Ret(S, o) == [out |-> o, map |-> S.map, counter |-> S.counter, trace |-> S.trace]

\* `Student ${this.userCounter++}`
PseudonymStale(counter) == "Student 1"
Pseudonym(counter) == "Student " \o ToStr(counter)

\* this.userNameMap.has(userId)
MapHasNever(map, userId) == FALSE
MapHas(map, userId) == userId \in DOMAIN map

\* email: user.email ? `student${userId}@example.com` : undefined
AnonEmailLeaky(user, userId) == IF TruthyEmail(user) THEN user["email"] ELSE UNDEF
AnonEmail(user, userId) ==
    IF TruthyEmail(user) THEN "student" \o userId \o "@example.com" ELSE UNDEF

\* if (!user || !user.id) return user;
PassesThroughOnlyMissing(user) == ~Has(user, "id")
PassesThrough(user) == ~TruthyId(user)

\* if (!this.userNameMap.has(userId)) this.userNameMap.set(userId, `Student ${this.userCounter++}`)
LookupOrInsertAlways(S, userId) ==
    [map |-> (userId :> Pseudonym(S.counter)) @@ S.map, counter |-> S.counter + 1]
LookupOrInsert(S, userId) ==
    IF MapHas(S.map, userId)
    THEN [map |-> S.map, counter |-> S.counter]
    ELSE [map |-> (userId :> Pseudonym(S.counter)) @@ S.map,
          counter |-> S.counter + 1]

\* return { ...user, name: anonymizedName, display_name: anonymizedName, email: ... }
AnonymizedCopyHidingId(user, anonymizedName, userId) ==
    [k \in DOMAIN user \cup {"name", "display_name", "email"} |->
        CASE k \in {"name", "display_name"} -> anonymizedName
          [] k = "email" -> AnonEmail(user, userId)
          [] k = "id" -> 0
          [] OTHER -> user[k]]
AnonymizedCopy(user, anonymizedName, userId) ==
    [k \in DOMAIN user \cup {"name", "display_name", "email"} |->
        CASE k = "name" -> anonymizedName
          [] k = "display_name" -> anonymizedName
          [] k = "email" -> AnonEmail(user, userId)
          [] OTHER -> user[k]]

AnonymizeKnown(S, user, userId, M) ==
    [out |-> AnonymizedCopy(user, M.map[userId], userId),
     map |-> M.map,
     counter |-> M.counter,
     trace |-> Append(S.trace, <<userId, M.map[userId]>>)]

\* `return user`: the caller gets the very object it passed (sameRef), not a copy
ReturnCopy(S, user) == Ret(S, user) @@ [sameRef |-> FALSE]
ReturnInput(S, user) == Ret(S, user) @@ [sameRef |-> TRUE]

anonymizeUser(S, user) ==
    IF PassesThrough(user)
    THEN ReturnInput(S, user)
    ELSE AnonymizeKnown(S, user, ToStr(user["id"]), LookupOrInsert(S, ToStr(user["id"])))

\* array.map(callback): the results in order, the anonymizer state threaded through
\* from each element to the next.  R holds the results of elements 1..lo-1; the
\* fold over lo..hi is split in halves (first half, then the second half from the
\* state the first left) to keep evaluation shallow.
AppendOut(prev, r) ==
    [out |-> Append(prev, r.out), map |-> r.map, counter |-> r.counter, trace |-> r.trace]

\* users.map(user => this.anonymizeUser(user))
RECURSIVE anonymizeUsersFrom(_, _, _, _)
anonymizeUsersFrom(R, users, lo, hi) ==
    IF Len(R.out) >= hi THEN R
    ELSE IF lo = hi THEN AppendOut(R.out, anonymizeUser(R, users[lo]))
    ELSE anonymizeUsersFrom(anonymizeUsersFrom(R, users, lo, (lo + hi) \div 2),
                        users, (lo + hi) \div 2 + 1, hi)

anonymizeUsers(S, users) == anonymizeUsersFrom(Ret(S, << >>), users, 1, Len(users))

\* comment.author && comment.author.role === 'student'
IsStudentAuthorAnyRole(comment) == Has(comment, "author")
IsStudentAuthor(comment) ==
    /\ Has(comment, "author")
    /\ Has(comment["author"], "role")
    /\ comment["author"]["role"] = "student"

\* obj with obj[key] replaced by r.out
WithField(obj, key, r) ==
    [out |-> [k \in DOMAIN obj |-> IF k = key THEN r.out ELSE obj[k]],
     map |-> r.map, counter |-> r.counter, trace |-> r.trace]

\* the callback of submission.submission_comments.map
anonymizeComment(S, comment) ==
    IF IsStudentAuthor(comment)
    THEN WithField(comment, "author", anonymizeUser(S, comment["author"]))
    ELSE Ret(S, comment)

RECURSIVE anonymizeCommentsFrom(_, _, _, _)
anonymizeCommentsFrom(R, comments, lo, hi) ==
    IF Len(R.out) >= hi THEN R
    ELSE IF lo = hi THEN AppendOut(R.out, anonymizeComment(R, comments[lo]))
    ELSE anonymizeCommentsFrom(anonymizeCommentsFrom(R, comments, lo, (lo + hi) \div 2),
                        comments, (lo + hi) \div 2 + 1, hi)

\* if (submission.user) anonymized.user = this.anonymizeUser(submission.user)
anonymizeSubmissionUser(S, submission) ==
    IF Has(submission, "user")
    THEN WithField(submission, "user", anonymizeUser(S, submission["user"]))
    ELSE Ret(S, submission)

\* if (submission.submission_comments && Array.isArray(...)) anonymized.submission_comments = ...
anonymizeSubmissionComments(R) ==
    IF Has(R.out, "submission_comments")
    THEN WithField(R.out, "submission_comments",
                   anonymizeCommentsFrom(Ret(R, << >>), R.out["submission_comments"],
                                         1, Len(R.out["submission_comments"])))
    ELSE R

anonymizeSubmission(S, submission) ==
    anonymizeSubmissionComments(anonymizeSubmissionUser(S, submission))

RECURSIVE anonymizeSubmissionsFrom(_, _, _, _)
anonymizeSubmissionsFrom(R, submissions, lo, hi) ==
    IF Len(R.out) >= hi THEN R
    ELSE IF lo = hi THEN AppendOut(R.out, anonymizeSubmission(R, submissions[lo]))
    ELSE anonymizeSubmissionsFrom(anonymizeSubmissionsFrom(R, submissions, lo, (lo + hi) \div 2),
                        submissions, (lo + hi) \div 2 + 1, hi)

anonymizeSubmissions(S, submissions) ==
    anonymizeSubmissionsFrom(Ret(S, << >>), submissions, 1, Len(submissions))

anonymizeAssignment(S, assignment) ==
    IF Has(assignment, "submission")
    THEN WithField(assignment, "submission", anonymizeSubmission(S, assignment["submission"]))
    ELSE Ret(S, assignment)

RECURSIVE anonymizeAssignmentsFrom(_, _, _, _)
anonymizeAssignmentsFrom(R, assignments, lo, hi) ==
    IF Len(R.out) >= hi THEN R
    ELSE IF lo = hi THEN AppendOut(R.out, anonymizeAssignment(R, assignments[lo]))
    ELSE anonymizeAssignmentsFrom(anonymizeAssignmentsFrom(R, assignments, lo, (lo + hi) \div 2),
                        assignments, (lo + hi) \div 2 + 1, hi)

anonymizeAssignments(S, assignments) ==
    anonymizeAssignmentsFrom(Ret(S, << >>), assignments, 1, Len(assignments))

----------------------------------------------------------------------------
(* Inputs of the anonymizer operations *)

Names == {"Alice", "Bob"}
Roles == {"student", "teacher"}
RealEmail(name) == IF name = "Alice" THEN "alice@uni.edu" ELSE "bob@uni.edu"

One(k, Vals) == {[x \in {k} |-> v] : v \in Vals}
Opt(k, Vals) == {Empty} \cup One(k, Vals)

\* user-shaped records: id missing, falsy or 1..MaxId; email missing, empty or real;
\* "Bob" also carries a display_name
UsersNamed(n) ==
    {i @@ [name |-> n] @@ (IF n = "Bob" THEN [display_name |-> "Bobby"] ELSE Empty) @@ e @@ r :
        i \in Opt("id", 0..MaxId), e \in Opt("email", {"", RealEmail(n)}), r \in Opt("role", Roles)}

Users == UNION {UsersNamed(n) : n \in Names}

BasicUsers == {u \in UsersNamed("Alice") : Has(u, "id") /\ ~Has(u, "role") /\ TruthyEmail(u)}

\* comment authors: a student, a student without id, a teacher, and the author
\* record of the submitter Dave (identity 1), which carries no role
Authors ==
    {[id |-> 1, display_name |-> "Carol", email |-> "carol@uni.edu", role |-> "student"],
     [display_name |-> "Carol", email |-> "carol@uni.edu", role |-> "student"],
     [id |-> 2, display_name |-> "Tess", email |-> "tess@uni.edu", role |-> "teacher"],
     [id |-> 1, display_name |-> "Dave", email |-> "dave@uni.edu"]}

Comments == {[id |-> 7, comment |-> "Well done"] @@ a : a \in Opt("author", Authors)}

SeqsUpTo(S, n) == UNION {[1..m -> S] : m \in 0..n}

CommentLists == SeqsUpTo(Comments, MaxComments)

SubUsers ==
    {[id |-> 1, name |-> "Dave", email |-> "dave@uni.edu"],
     [id |-> 2, name |-> "Tess", email |-> "tess@uni.edu", role |-> "teacher"]}

Submissions ==
    {[id |-> 10, score |-> 8] @@ u @@ c :
        u \in Opt("user", SubUsers), c \in Opt("submission_comments", CommentLists)}

ShortSubmissions ==
    {s \in Submissions : Has(s, "submission_comments") /\ Len(s["submission_comments"]) = 1}

PlainSubmissions == {s \in Submissions : ~Has(s, "submission_comments")}

Assignments == {[id |-> 20, name |-> "Essay"] @@ s : s \in Opt("submission", ShortSubmissions)}

UserLists == SeqsUpTo(BasicUsers, 2)
SubmissionLists == SeqsUpTo(PlainSubmissions, 2)
AssignmentLists ==
    SeqsUpTo({a \in Assignments : Has(a, "submission") => ~Has(a["submission"], "user")}, 1)

----------------------------------------------------------------------------
(* The anonymizer on its own: every public operation, called directly *)

\* history bookkeeping: fold the <<identity, pseudonym>> pairs of one operation into `seen`
\* positions of trace at which an identity not yet in sn is returned for the first time
FirstReturns(sn, trace) ==
    SelectSeq([i \in 1..Len(trace) |-> i],
              LAMBDA i : /\ trace[i][1] \notin DOMAIN sn.names
                         /\ \A j \in 1..(i - 1) : trace[j][1] # trace[i][1])

Observe(sn, trace) ==
    [order |-> sn.order \o [n \in 1..Len(FirstReturns(sn, trace)) |->
                               trace[FirstReturns(sn, trace)[n]][1]],
     names |-> [k \in DOMAIN sn.names \cup {trace[i][1] : i \in 1..Len(trace)} |->
                   (IF k \in DOMAIN sn.names THEN sn.names[k] ELSE {})
                   \cup {trace[i][2] : i \in {j \in 1..Len(trace) : trace[j][1] = k}}]]

NoOp ==
    [op |-> "none", in |-> Empty, out |-> Empty, preMap |-> Empty, preCounter |-> 1,
     sameRef |-> FALSE, afterReset |-> FALSE, preReset |-> Empty]

\* history bookkeeping: the pseudonyms that the reset just before this operation
\* discarded, of the identities this operation returned
DiscardedOf(trace) ==
    IF last.op = "reset"
    THEN [k \in DOMAIN last.preMap \cap {trace[i][1] : i \in 1..Len(trace)} |-> last.preMap[k]]
    ELSE Empty

Apply(opName, input, r) ==
    /\ userNameMap' = r.map
    /\ userCounter' = r.counter
    /\ seen' = Observe(seen, r.trace)
    /\ last' = [op |-> opName, in |-> input, out |-> r.out,
                preMap |-> userNameMap, preCounter |-> userCounter,
                sameRef |-> Has(r, "sameRef") /\ r["sameRef"],
                afterReset |-> last.op = "reset", preReset |-> DiscardedOf(r.trace)]
    /\ UNCHANGED toolVars

AnonymizeUser ==
    \E user \in Users : Apply("anonymizeUser", user, anonymizeUser(AnonState, user))

AnonymizeUsers ==
    \E users \in UserLists :
        Apply("anonymizeUsers", users, anonymizeUsers(AnonState, users))

AnonymizeSubmission ==
    \E submission \in Submissions :
        Apply("anonymizeSubmission", submission, anonymizeSubmission(AnonState, submission))

AnonymizeSubmissions ==
    \E submissions \in SubmissionLists :
        Apply("anonymizeSubmissions", submissions, anonymizeSubmissions(AnonState, submissions))

AnonymizeAssignment ==
    \E assignment \in Assignments :
        Apply("anonymizeAssignment", assignment, anonymizeAssignment(AnonState, assignment))

AnonymizeAssignments ==
    \E assignments \in AssignmentLists :
        Apply("anonymizeAssignments", assignments, anonymizeAssignments(AnonState, assignments))

\* reset(): this.userNameMap.clear(); this.userCounter = 1;
ResetKeepsCounter ==
    /\ userNameMap' = Empty
    /\ userCounter' = userCounter
    /\ seen' = [order |-> << >>, names |-> Empty]
    /\ last' = [op |-> "reset", in |-> Empty, out |-> Empty,
                preMap |-> userNameMap, preCounter |-> userCounter,
                sameRef |-> FALSE, afterReset |-> FALSE, preReset |-> Empty]
    /\ UNCHANGED toolVars
Reset ==
    /\ userNameMap' = Empty
    /\ userCounter' = 1
    /\ seen' = [order |-> << >>, names |-> Empty]
    /\ last' = [op |-> "reset", in |-> Empty, out |-> Empty,
                preMap |-> userNameMap, preCounter |-> userCounter,
                sameRef |-> FALSE, afterReset |-> FALSE, preReset |-> Empty]
    /\ UNCHANGED toolVars

----------------------------------------------------------------------------
(* The upstream REST API: page-numbered collections of upstreamN records *)

Min(a, b) == IF a < b THEN a ELSE b

\* Every 7th user record carries no id; past the first hundred, every 3rd record
\* repeats the identity of the record one hundred places before it.
UserIdAt(i) == IF i > 100 /\ i % 3 = 0 THEN i - 100 ELSE i

UpstreamUser(i) ==
    (IF i % 7 = 0 THEN Empty ELSE [id |-> UserIdAt(i)])
    @@ [name |-> "Name" \o ToStr(i), sis_user_id |-> i]
    @@ (IF i % 2 = 0 THEN Empty ELSE [email |-> "mail" \o ToStr(i) \o "@uni.edu"])

UpstreamComment(i) ==
    [id |-> i, comment |-> "Feedback",
     author |-> IF i % 2 = 0
                THEN [id |-> UserIdAt(i), display_name |-> "Name" \o ToStr(i), role |-> "student"]
                ELSE [id |-> 900, display_name |-> "Teacher", role |-> "teacher"]]

UpstreamSubmission(i) ==
    [id |-> i, score |-> i % 10]
    @@ (IF i % 5 = 0 THEN Empty ELSE [user |-> UpstreamUser(i)])
    @@ (IF i % 4 = 0 THEN [submission_comments |-> <<UpstreamComment(i), UpstreamComment(i + 1)>>]
        ELSE Empty)

UpstreamAssignment(i) ==
    [id |-> i, name |-> "Assignment" \o ToStr(i)]
    @@ (IF i % 2 = 0 THEN Empty ELSE [submission |-> UpstreamSubmission(i)])

\* quizzes, rubrics and assignment groups: nothing personal in them
UpstreamItem(i) == [id |-> i, title |-> "Item" \o ToStr(i)]

Record(url, i) ==
    CASE url = "users" -> UpstreamUser(i)
      [] url = "assignments" -> UpstreamAssignment(i)
      [] url \in {"quizzes", "rubrics", "assignment_groups"} -> UpstreamItem(i)
      [] OTHER -> UpstreamSubmission(i)

\* single resources
UpstreamPage(pageUrl) ==
    [url |-> pageUrl, title |-> "Title of " \o pageUrl, body |-> "<p>" \o pageUrl \o "</p>",
     published |-> TRUE]
UpstreamModule(published) == [id |-> 5, name |-> "Week 1", published |-> published]

\* records from..to of the collection behind url
Slice(url, from, to) == [j \in 1..(to - from + 1) |-> Record(url, from + j - 1)]

Collection(url) == Slice(url, 1, upstreamN)

\* the page a 2xx response carries: only top-level page / per_page count
QueryPage(query) == IF Has(query, "page") THEN query["page"] ELSE 1
QueryPerPage(query) == IF Has(query, "per_page") THEN query["per_page"] ELSE UpstreamDefaultPerPage

Serve(url, query) ==
    Slice(url, (QueryPage(query) - 1) * QueryPerPage(query) + 1,
          Min(QueryPage(query) * QueryPerPage(query), upstreamN))

----------------------------------------------------------------------------
(* CanvasClient (canvasClient.ts) and the tool handlers (tools/*.ts) *)

Procs == 1..NumProcs

PER_PAGE == 100            \* per_page: 100 of the handlers' page loops
DEFAULT_PER_PAGE == 100    \* params.per_page || 100 in fetchAllPages

ListMethods ==
    {"listStudents", "listCourseAssignments", "listAssignmentSubmissions",
     "listSectionAssignmentSubmissions", "listRubricAssessments"}

AnonymousArgs == {"omitted", "true", "false"}

\* a call: the entry point (a tool or a client method) and its arguments
CallOf(e, a, pp) == [entry |-> e, anonymous |-> a, per_page |-> pp]

\* list-assignments as index.ts registers it itself, on its own axios instance
LEGACY_LIST_ASSIGNMENTS == "list-assignments (index.ts)"

\* the client method a handler awaits in its loop; "get" is canvas.get itself
MethodOf(entry) ==
    CASE entry = "list-students" -> "listStudents"
      [] entry = "list-section-submissions" -> "listSectionAssignmentSubmissions"
      [] entry = "list-assignment-submissions" -> "listAssignmentSubmissions"
      [] entry \in {"list-assignments", "list-rubric-assessments", "fetchAllPages",
                    "list-quizzes", "list-rubrics", "get-rubric-statistics"} -> "get"
      [] entry = "list-assignment-groups" -> "listAssignmentGroups"
      [] entry = LEGACY_LIST_ASSIGNMENTS -> "axiosInstance.get"
      [] OTHER -> entry

\* the path of the collection a method reads
UrlOf(c) ==
    CASE c.entry \in {"list-students", "listStudents"} -> "users"
      [] c.entry \in {"list-assignments", "listCourseAssignments", LEGACY_LIST_ASSIGNMENTS} ->
            "assignments"
      [] c.entry \in {"list-section-submissions", "listSectionAssignmentSubmissions"} ->
            "section_submissions"
      [] c.entry = "list-quizzes" -> "quizzes"
      [] c.entry = "list-rubrics" -> "rubrics"
      [] c.entry = "list-assignment-groups" -> "assignment_groups"
      [] OTHER -> "submissions"

\* the `options` argument the client method receives
\* handlers: async ({ ..., anonymous = true }) => canvas.listX(..., { anonymous })
OptionsOf(c) ==
    CASE c.entry \in {"list-students", "list-section-submissions"} ->
            (IF c.anonymous = "omitted" THEN "true" ELSE c.anonymous)
      [] c.entry \in ListMethods -> c.anonymous
      [] OTHER -> "omitted"

\* which entries walk pages: a handler's own loop, fetchAllPages, or a single request
LoopOf(c) ==
    CASE c.entry \in {"list-students", "list-section-submissions", "list-assignments",
                      LEGACY_LIST_ASSIGNMENTS} -> "handler"
      [] c.entry \in {"fetchAllPages", "get-rubric-statistics"} -> "fetchAllPages"
      [] OTHER -> "single"

\* const per_page = params.per_page || 100
PerPageOf(c) ==
    CASE LoopOf(c) = "handler" -> PER_PAGE
      [] LoopOf(c) = "fetchAllPages" -> (IF c.per_page # 0 THEN c.per_page ELSE DEFAULT_PER_PAGE)
      [] OTHER -> 0

\* the query string parameters of the request for page pg
QueryOf(c, pg) ==
    CASE c.entry \in {"list-students", "list-section-submissions"} ->
            [per_page |-> PER_PAGE, page |-> pg]
      [] c.entry = "list-assignments" ->
            [params |-> [per_page |-> PER_PAGE, page |-> pg]]
      [] c.entry = LEGACY_LIST_ASSIGNMENTS ->
            [per_page |-> PER_PAGE, page |-> pg, order_by |-> "position"]
      [] c.entry = "fetchAllPages" ->
            [page |-> pg, per_page |-> PerPageOf(c)]
      [] c.entry = "list-rubric-assessments" ->
            [include |-> "rubric_assessment"]
      [] c.entry = "get-rubric-statistics" ->
            [params |-> [include |-> "rubric_assessment", per_page |-> 100],
             page |-> pg, per_page |-> PerPageOf(c)]
      [] OTHER -> Empty

\* options.anonymous !== false
ShouldAnonymizeOnlyTrue(anonymous) == anonymous = "true"
ShouldAnonymize(anonymous) == anonymous # "false"

\* return options.anonymous !== false ? DataAnonymizer.anonymizeXs(data) : data
ClientResult(method, anonymous, S, data) ==
    IF method \in ListMethods /\ ShouldAnonymize(anonymous)
    THEN CASE method = "listStudents" -> anonymizeUsers(S, data)
           [] method = "listCourseAssignments" -> anonymizeAssignments(S, data)
           [] OTHER -> anonymizeSubmissions(S, data)
    ELSE Ret(S, data)

\* hasMore = data.length === per_page
HasMoreAtLeast(c, len) == LoopOf(c) # "single" /\ len >= PerPageOf(c)
HasMoreNonEmpty(c, len) == LoopOf(c) # "single" /\ len > 0
HasMore(c, len) == LoopOf(c) # "single" /\ len = PerPageOf(c)

RequestFirstPage(p, c, pg) ==
    [proc |-> p, method |-> "GET", url |-> UrlOf(c), query |-> QueryOf(c, 1), status |-> "pending"]
Request(p, c, pg) ==
    [proc |-> p, method |-> "GET", url |-> UrlOf(c), query |-> QueryOf(c, pg), status |-> "pending"]

SectionRequest(p) ==
    [proc |-> p, method |-> "GET", url |-> "section", query |-> Empty, status |-> "pending"]

\* the request invocation p is waiting for: the last one it issued
Pending(p) == requests[p][Len(requests[p])]

Settle(p, st) == [requests[p] EXCEPT ![Len(requests[p])].status = st]

Issue(p, log, request) == [requests EXCEPT ![p] = Append(log, request)]

\* console.error(text, detail)
LogLine(text, detail) == [text |-> text, detail |-> detail]

\* what the caller receives
NoOut == [status |-> "none", records |-> << >>, total |-> 0, message |-> ""]
\* items.map(item => ...).join('\n---\n'): the text of the items is abstracted to
\* their number; like the joined text it is empty exactly when there are no items
Formatted(records) == IF Len(records) = 0 THEN "" ELSE ToStr(Len(records)) \o " items"

\* JSON.stringify(response, null, 2)
JsonText(records) == IF Len(records) = 0 THEN "[]" ELSE "[ " \o Formatted(records) \o " ]"

\* items.length > 0 ? `<heading>:\n\n${formatted}\n\nTotal <items>: ${items.length}` : "<none found>"
Listing(records, heading, items, noneFound) ==
    IF Len(records) > 0
    THEN heading \o ":\n\n" \o Formatted(records)
         \o "\n\nTotal " \o items \o ": " \o ToStr(Len(records))
    ELSE noneFound

\* the text block of the envelope a list handler returns (the texts of the other
\* handlers do not depend on the records and are left out)
RenderText(c, records) ==
    CASE c.entry = "list-students" ->
            Listing(records, "Students in course", "students", "No students found in this course.")
      [] c.entry = "list-section-submissions" ->
            Listing(records, "Submissions for assignment in section", "submissions",
                    "No submissions found for this assignment in this section.")
      [] c.entry \in {"list-assignments", LEGACY_LIST_ASSIGNMENTS} ->
            Listing(records, "Assignments in course", "assignments",
                    "No assignments found in this course.")
      [] c.entry = "list-quizzes" ->
            Listing(records, "Quizzes in course", "quizzes", "No quizzes found in this course.")
      [] c.entry = "list-rubrics" ->
            (IF Formatted(records) # "" THEN Formatted(records)
             ELSE "No rubrics found for this course")
      [] c.entry \in {"list-assignment-submissions", "list-rubric-assessments",
                      "list-assignment-groups"} -> JsonText(records)
      [] c.entry = "toggle-module-publish" ->
            "Module is now " \o (IF records[1].published THEN "published" ELSE "unpublished")
      [] OTHER -> UNDEF

OkOut(c, records) ==
    [status |-> "ok", records |-> records, total |-> Len(records), message |-> "",
     text |-> RenderText(c, records)]

\* catch (error) { throw new Error(`Failed to ...: ${error.message}`) }
ErrorPrefixMissing(c) == ""
ErrorPrefix(c) ==
    CASE c.entry = "list-students" -> "Failed to fetch students: "
      [] c.entry = "list-section-submissions" -> "Failed to fetch section submissions: "
      [] c.entry = "list-assignment-submissions" -> "Failed to fetch assignment submissions: "
      [] c.entry \in {"list-assignments", LEGACY_LIST_ASSIGNMENTS} ->
            "Failed to fetch assignments: "
      [] c.entry = "list-rubric-assessments" -> "Failed to fetch rubric assessments: "
      [] c.entry = "list-quizzes" -> "Failed to fetch quizzes: "
      [] c.entry = "list-rubrics" -> "Failed to fetch rubrics: "
      [] c.entry = "list-assignment-groups" -> "Failed to fetch assignment groups: "
      [] c.entry = "get-rubric-statistics" -> "Failed to fetch rubric statistics: "
      [] c.entry = "update-page-content" -> "Failed to update page: "
      [] c.entry = "patch-page-content" -> "Failed to fetch page for patching: "
      [] c.entry = "apply-page-changes" -> "Failed to apply page changes: "
      [] c.entry = "toggle-module-publish" -> "Failed to toggle module publish: "
      [] OTHER -> ""

\* the throw leaves the loop: the caller gets the error and nothing of `results`
ErrorOutPartial(c, results, message) ==
    [status |-> "ok", records |-> results, total |-> Len(results), message |-> ""]
ErrorOut(c, results, message) ==
    [status |-> "error", records |-> << >>, total |-> 0, message |-> ErrorPrefix(c) \o message]

NoCall == CallOf("none", "omitted", 0)

\* the page tools' arguments: body / newContent, title, and the styleguide switches
PageCallOf(e, body, title, show, ignore) ==
    [entry |-> e, anonymous |-> "omitted", per_page |-> 0, pageUrl |-> "syllabus",
     body |-> body, title |-> title, showStyleguidePreview |-> show, ignoreStyleguide |-> ignore]

\* a write through the gateway itself: canvas.post / put / delete(url, data)
GatewayCallOf(e) ==
    [entry |-> e, anonymous |-> "omitted", per_page |-> 0, body |-> [name |-> "x"]]

\* this.axios.get(url, { params })
GetRequestPosting(p, url, query) ==
    [proc |-> p, method |-> "POST", url |-> url, query |-> query, status |-> "pending"]
GetRequest(p, url, query) ==
    [proc |-> p, method |-> "GET", url |-> url, query |-> query, status |-> "pending"]

\* if (title !== undefined) wiki_page.title = title; if (body !== undefined) wiki_page.body = body
WikiPageTitleOnly(c) == IF c.title # UNDEF THEN [title |-> c.title] ELSE Empty
WikiPage(c) ==
    (IF c.title # UNDEF THEN [title |-> c.title] ELSE Empty)
    @@ (IF c.body # UNDEF THEN [body |-> c.body] ELSE Empty)

\* updateOrCreatePage(courseId, pageUrl, { wiki_page }): this.put(url, data)
PagePut(p, c) ==
    [proc |-> p, method |-> "PUT", url |-> "pages/" \o c.pageUrl, query |-> Empty,
     data |-> [wiki_page |-> WikiPage(c)], status |-> "pending"]

\* updateModulePublish(courseId, moduleId, { published: newPublished })
ModulePut(p, newPublished) ==
    [proc |-> p, method |-> "PUT", url |-> "module", query |-> Empty,
     data |-> [published |-> newPublished], status |-> "pending"]

GatewayWrite(p, c) ==
    [proc |-> p,
     method |-> CASE c.entry = "post" -> "POST" [] c.entry = "put" -> "PUT" [] OTHER -> "DELETE",
     url |-> "resource", query |-> Empty, data |-> c.body, status |-> "pending"]

\* if (!body && showStyleguidePreview && !ignoreStyleguide)
WantsPreview(c) == c.body = UNDEF /\ c.showStyleguidePreview /\ ~c.ignoreStyleguide

\* where a handler stops first: the state it waits in
FirstAwait(c) ==
    CASE c.entry = "list-section-submissions" -> "section"
      [] c.entry = "update-page-content" -> (IF WantsPreview(c) THEN "styleguide" ELSE "write")
      [] c.entry = "patch-page-content" -> "current"
      [] c.entry = "toggle-module-publish" -> "module"
      [] c.entry = "get-rubric-statistics" -> "assignment"
      [] c.entry \in {"apply-page-changes", "post", "put", "delete"} -> "write"
      [] OTHER -> "page"

\* ... and the request it waits for
FirstRequest(p, c) ==
    CASE FirstAwait(c) = "section" -> SectionRequest(p)
      [] FirstAwait(c) = "styleguide" -> GetRequest(p, "pages/canvas-styleguide", Empty)
      [] FirstAwait(c) = "current" -> GetRequest(p, "pages/" \o c.pageUrl, Empty)
      [] FirstAwait(c) = "module" -> GetRequest(p, "module", Empty)
      [] FirstAwait(c) = "assignment" ->
            GetRequest(p, "assignment", [params |-> [include |-> "rubric"]])
      [] FirstAwait(c) = "write" ->
            (IF c.entry \in {"post", "put", "delete"} THEN GatewayWrite(p, c) ELSE PagePut(p, c))
      [] OTHER -> Request(p, c, 1)

\* a tool is invoked (or a client method is called): it runs up to its first await
Invoke(p, c) ==
    /\ process.state = "connected"
    /\ pc[p] = "idle"
    /\ call' = [call EXCEPT ![p] = c]
    /\ page' = [page EXCEPT ![p] = 1]
    /\ acc' = [acc EXCEPT ![p] = << >>]
    /\ requests' = Issue(p, << >>, FirstRequest(p, c))
    /\ pc' = [pc EXCEPT ![p] = FirstAwait(c)]
    /\ UNCHANGED <<anonVars, process, stderr, module, upstreamN, out>>

\* await canvas.getSection(courseId, sectionId) resolves; the page loop starts
SectionResponds(p) ==
    /\ pc[p] = "section"
    /\ requests' = Issue(p, Settle(p, "ok"), Request(p, call[p], 1))
    /\ pc' = [pc EXCEPT ![p] = "page"]
    /\ UNCHANGED <<anonVars, process, stderr, module, upstreamN, call, page, acc, out>>

\* results.push(...data)
PushFront(results, data) == data \o results
Push(results, data) == results \o data

\* the body of the page loop after its await, up to the next await or the return
AfterPage(p, r) ==
    /\ userNameMap' = r.map
    /\ userCounter' = r.counter
    /\ acc' = [acc EXCEPT ![p] = Push(acc[p], r.out)]
    /\ page' = [page EXCEPT ![p] = page[p] + 1]
    /\ IF HasMore(call[p], Len(r.out))
       THEN /\ requests' = Issue(p, Settle(p, "ok"), Request(p, call[p], page[p] + 1))
            /\ UNCHANGED <<pc, out>>
       ELSE /\ requests' = [requests EXCEPT ![p] = Settle(p, "ok")]
            /\ pc' = [pc EXCEPT ![p] = "done"]
            /\ out' = [out EXCEPT ![p] = OkOut(call[p], Push(acc[p], r.out))]
    /\ stderr' = IF call[p].entry = LEGACY_LIST_ASSIGNMENTS
                 THEN Append(stderr, LogLine("Fetched " \o ToStr(Len(r.out))
                                                \o " assignments from page " \o ToStr(page[p]),
                                             Empty))
                 ELSE stderr
    /\ UNCHANGED <<seen, last, process, module, upstreamN, call>>

\* a page request is answered 2xx
PageResponds(p) ==
    /\ pc[p] = "page"
    /\ AfterPage(p, ClientResult(MethodOf(call[p].entry), OptionsOf(call[p]), AnonState,
                                 Serve(Pending(p).url, Pending(p).query)))

\* process.env.CANVAS_API_TOKEN: unset, empty or set (to the operator's token)
Credential == "secret"
Tokens == {UNDEF, "", Credential}

\* apiToken: process.env.CANVAS_API_TOKEN || ""
ApiToken(env) == IF env = UNDEF THEN "" ELSE env

\* axios.create({ baseURL, headers: { Authorization: `Bearer ${apiToken}` } }): the
\* configuration every request is sent with, and every AxiosError carries (the
\* client only exists in a process that was started with the token set)
RequestConfig == [headers |-> [Authorization |-> "Bearer " \o ApiToken(Credential)]]

\* what axios rejects with: an Error (AxiosError) with its description and the
\* request's configuration, carrying the upstream response when there was one; or,
\* in principle, a value that is no Error
UnauthorizedFailure ==
    [isError |-> TRUE, message |-> "Request failed with status code 401",
     config |-> RequestConfig,
     response |-> [status |-> 401, data |-> [errors |-> <<[message |-> "unauthorized"]>>]]]
ServerFailure ==
    [isError |-> TRUE, message |-> "Request failed with status code 500",
     config |-> RequestConfig,
     response |-> [status |-> 500, data |-> [message |-> "internal"]]]
EmptyErrorsFailure ==
    [isError |-> TRUE, message |-> "Request failed with status code 422",
     config |-> RequestConfig,
     response |-> [status |-> 422, data |-> [errors |-> << >>]]]
NetworkFailure == [isError |-> TRUE, message |-> "Network Error", config |-> RequestConfig]
NonErrorFailure == [isError |-> FALSE]

Failures ==
    {UnauthorizedFailure, ServerFailure, EmptyErrorsFailure, NetworkFailure, NonErrorFailure}

\* JSON.stringify of an errors array of {message} objects
RECURSIVE JsonItems(_, _)
JsonItems(errors, i) ==
    IF i > Len(errors) THEN ""
    ELSE (IF i > 1 THEN "," ELSE "")
         \o "{\"message\":\"" \o errors[i]["message"] \o "\"}" \o JsonItems(errors, i + 1)

JsonStringify(errors) == "[" \o JsonItems(errors, 1) \o "]"

\* error.response?.data?.errors (an array is truthy, the empty one too)
HasErrorsPayload(error) ==
    /\ Has(error, "response")
    /\ Has(error["response"], "data")
    /\ Has(error["response"]["data"], "errors")

UNKNOWN_ERROR == "Unknown error occurred in CanvasClient"

\* handleError(error): the message of the Error it throws
handleErrorDescriptionFirst(error) ==
    IF error["isError"] THEN error["message"]
    ELSE IF HasErrorsPayload(error) THEN JsonStringify(error["response"]["data"]["errors"])
    ELSE UNKNOWN_ERROR
handleError(error) ==
    IF HasErrorsPayload(error) THEN JsonStringify(error["response"]["data"]["errors"])
    ELSE IF error["isError"] THEN error["message"]
    ELSE UNKNOWN_ERROR

FailureMessages == {handleError(e) : e \in Failures}

\* the awaited request rejects with `error`
Reject(p, error) ==
    [requests[p] EXCEPT ![Len(requests[p])] =
        [k \in DOMAIN @ \cup {"error"} |->
            IF k = "status" THEN "failed" ELSE IF k = "error" THEN error ELSE @[k]]]

\* the invocation returns `records` to its caller
Return(p, records) ==
    /\ requests' = [requests EXCEPT ![p] = Settle(p, "ok")]
    /\ pc' = [pc EXCEPT ![p] = "done"]
    /\ out' = [out EXCEPT ![p] = OkOut(call[p], records)]

\* the invocation goes on to its next await
Continue(p, request, await) ==
    /\ requests' = Issue(p, Settle(p, "ok"), request)
    /\ pc' = [pc EXCEPT ![p] = await]
    /\ UNCHANGED out

\* patch-page-content: await canvas.getPage(courseId, pageUrl) resolves
CurrentPageResponds(p) ==
    /\ pc[p] = "current"
    /\ acc' = [acc EXCEPT ![p] = <<UpstreamPage(call[p].pageUrl)>>]
    /\ IF call[p].ignoreStyleguide
       THEN Return(p, <<UpstreamPage(call[p].pageUrl)>>)
       ELSE Continue(p, GetRequest(p, "pages/canvas-styleguide", Empty), "styleguide")
    /\ UNCHANGED <<anonVars, process, stderr, module, upstreamN, call, page>>

\* await canvas.getPage(courseId, 'canvas-styleguide') resolves: update-page-content
\* returns the preview, patch-page-content the page with the styleguide
StyleguideResponds(p) ==
    /\ pc[p] = "styleguide"
    /\ Return(p, Append(acc[p], UpstreamPage("canvas-styleguide")))
    /\ UNCHANGED <<anonVars, process, stderr, module, upstreamN, call, page, acc>>

\* ... rejects: the inner catch takes the error; update-page-content goes on to
\* its write, patch-page-content returns the page with a notice
StyleguideFailsRethrown(p, error) ==
    /\ pc[p] = "styleguide"
    /\ out' = [out EXCEPT ![p] = ErrorOut(call[p], acc[p], handleError(error))]
    /\ requests' = [requests EXCEPT ![p] = Reject(p, error)]
    /\ pc' = [pc EXCEPT ![p] = "error"]
    /\ UNCHANGED <<anonVars, process, stderr, module, upstreamN, call, page, acc>>
StyleguideFails(p, error) ==
    /\ pc[p] = "styleguide"
    /\ IF call[p].entry = "update-page-content"
       THEN /\ requests' = Issue(p, Reject(p, error), PagePut(p, call[p]))
            /\ pc' = [pc EXCEPT ![p] = "write"]
            /\ UNCHANGED out
       ELSE /\ requests' = [requests EXCEPT ![p] = Reject(p, error)]
            /\ pc' = [pc EXCEPT ![p] = "done"]
            /\ out' = [out EXCEPT ![p] = OkOut(call[p], acc[p])]
    /\ UNCHANGED <<anonVars, process, stderr, module, upstreamN, call, page, acc>>

\* const newPublished = !current.published
NewPublishedAlways(current) == TRUE
NewPublished(current) == ~current.published

\* toggle-module-publish: await canvas.getModule resolves; the PUT is sent
ModuleResponds(p) ==
    /\ pc[p] = "module"
    /\ acc' = [acc EXCEPT ![p] = <<UpstreamModule(module)>>]
    /\ Continue(p, ModulePut(p, NewPublished(UpstreamModule(module))), "write")
    /\ UNCHANGED <<anonVars, process, stderr, module, upstreamN, call, page>>

\* the assignment request of get-rubric-statistics, settled with its response:
\* whether the assignment it carried has a rubric
AssignmentAnswered(p, hasRubric) ==
    [requests[p] EXCEPT ![Len(requests[p])] = [@ EXCEPT !.status = "ok"] @@ [rubric |-> hasRubric]]

\* if (!response.rubric)
RubricMissingNever(hasRubric) == FALSE
RubricMissing(hasRubric) == ~hasRubric

\* get-rubric-statistics: the assignment arrives, with or without a rubric
\* if (!response.rubric) throw new Error('No rubric found for this assignment')
AssignmentResponds(p, hasRubric) ==
    /\ pc[p] = "assignment"
    /\ IF RubricMissing(hasRubric)
       THEN /\ requests' = [requests EXCEPT ![p] = AssignmentAnswered(p, hasRubric)]
            /\ pc' = [pc EXCEPT ![p] = "error"]
            /\ out' = [out EXCEPT ![p] =
                          ErrorOut(call[p], acc[p], "No rubric found for this assignment")]
       ELSE /\ requests' = Issue(p, AssignmentAnswered(p, hasRubric), Request(p, call[p], 1))
            /\ pc' = [pc EXCEPT ![p] = "page"]
            /\ UNCHANGED out
    /\ UNCHANGED <<anonVars, process, stderr, module, upstreamN, call, page, acc>>

\* a POST, PUT or DELETE is answered 2xx: the handler returns what it was sent back
WriteResponds(p) ==
    /\ pc[p] = "write"
    /\ Return(p, <<Pending(p).data>>)
    /\ module' = IF Pending(p).url = "module" THEN Pending(p).data.published ELSE module
    /\ UNCHANGED <<anonVars, process, stderr, upstreamN, call, page, acc>>

AwaitStates == {"section", "page", "current", "styleguide", "module", "assignment", "write"}

\* the catch of the handlers of index.ts, which see what axios rejected with:
\* console.error('Full error details:', error.response?.data || error)
FullErrorDetails(error) ==
    LogLine("Full error details:",
            IF Has(error, "response") /\ Has(error["response"], "data")
            THEN error["response"]["data"]
            ELSE error)

\* ... and then: errors payload as JSON, else error.message, else 'Unknown error'
LegacyCatchMessage(error) ==
    IF HasErrorsPayload(error) THEN JsonStringify(error["response"]["data"]["errors"])
    ELSE IF error["isError"] THEN error["message"]
    ELSE "Unknown error"

\* a request fails: get() throws through handleError, the loop is abandoned and
\* the handler's catch rethrows
RequestFails(p, error) ==
    /\ pc[p] \in AwaitStates \ {"styleguide"}
    /\ IF call[p].entry = LEGACY_LIST_ASSIGNMENTS
       THEN /\ stderr' = Append(stderr, FullErrorDetails(error))
            /\ out' = [out EXCEPT ![p] = ErrorOut(call[p], acc[p], LegacyCatchMessage(error))]
       ELSE /\ stderr' = stderr
            /\ out' = [out EXCEPT ![p] = ErrorOut(call[p], acc[p], handleError(error))]
    /\ requests' = [requests EXCEPT ![p] = Reject(p, error)]
    /\ pc' = [pc EXCEPT ![p] = "error"]
    /\ UNCHANGED <<anonVars, process, module, upstreamN, call, page, acc>>

\* upstream collection sizes: full pages plus a remainder
Remainders == {0, 1, 37}
Sizes == {k * PER_PAGE + r : k \in 0..MaxFullPages, r \in Remainders}

PerPageArgs == {0, 50}

Bodies == {UNDEF, "<p>new</p>"}
Titles == {UNDEF, "Syllabus"}

PageCalls ==
    {PageCallOf("update-page-content", b, UNDEF, show, ignore) :
        b \in Bodies, show \in BOOLEAN, ignore \in BOOLEAN}
    \cup {PageCallOf("patch-page-content", UNDEF, UNDEF, TRUE, ignore) : ignore \in BOOLEAN}
    \cup {PageCallOf("apply-page-changes", "<p>new</p>", t, TRUE, FALSE) : t \in Titles}

OtherToolCalls ==
    {CallOf(e, "omitted", 0) :
        e \in {"list-quizzes", "list-rubrics", "list-assignment-groups",
               "get-rubric-statistics", "toggle-module-publish", LEGACY_LIST_ASSIGNMENTS}}

GatewayCalls == {GatewayCallOf(e) : e \in {"get", "post", "put", "delete"}}

ClientCalls ==
    {CallOf(e, a, 0) : e \in ListMethods \cup {"list-students", "list-section-submissions"},
                       a \in AnonymousArgs}
    \cup {CallOf(e, "omitted", 0) :
            e \in {"list-assignment-submissions", "list-assignments", "list-rubric-assessments"}}
    \cup {CallOf("fetchAllPages", "omitted", pp) : pp \in PerPageArgs}

ToolCalls ==
    {CallOf(e, "omitted", 0) :
        e \in {"list-students", "list-section-submissions", "list-assignment-submissions"}}

Started(env) == [env |-> env, state |-> "start", exitCode |-> UNDEF]

\* the server after `await server.connect(transport)`
Connected == [env |-> Credential, state |-> "connected", exitCode |-> UNDEF]

ConnectedLog ==
    <<[text |-> "Starting Canvas MCP Server...", detail |-> Empty],
      [text |-> "Canvas MCP Server running on stdio", detail |-> Empty]>>

\* if (!config.apiToken) { console.error(...); process.exit(1); } otherwise the
\* client is created, the tools are registered and startServer() is called
ValidateConfigurationLenient ==
    /\ process.state = "start"
    /\ process' = [process EXCEPT !.state = "starting"]
    /\ stderr' = Append(stderr, LogLine("Starting Canvas MCP Server...", Empty))
    /\ UNCHANGED <<anonVars, module, upstreamN, pc, call, page, acc, out, requests>>
ValidateConfiguration ==
    /\ process.state = "start"
    /\ process' = IF ApiToken(process.env) = ""
                  THEN [process EXCEPT !.state = "exited", !.exitCode = 1]
                  ELSE [process EXCEPT !.state = "starting"]
    /\ stderr' = Append(stderr,
                        IF ApiToken(process.env) = ""
                        THEN LogLine("Error: CANVAS_API_TOKEN environment variable is required", Empty)
                        ELSE LogLine("Starting Canvas MCP Server...", Empty))
    /\ UNCHANGED <<anonVars, module, upstreamN, pc, call, page, acc, out, requests>>

\* await server.connect(transport) resolves
ServerConnects ==
    /\ process.state = "starting"
    /\ process' = [process EXCEPT !.state = "connected"]
    /\ stderr' = Append(stderr, LogLine("Canvas MCP Server running on stdio", Empty))
    /\ UNCHANGED <<anonVars, module, upstreamN, pc, call, page, acc, out, requests>>

\* ... rejects: catch (error) { console.error("Fatal error:", error); process.exit(1); }
ServerConnectFails ==
    /\ process.state = "starting"
    /\ process' = [process EXCEPT !.state = "exited", !.exitCode = 1]
    /\ stderr' = Append(stderr, LogLine("Fatal error:", [isError |-> TRUE, message |-> "transport closed"]))
    /\ UNCHANGED <<anonVars, module, upstreamN, pc, call, page, acc, out, requests>>

InitProcs ==
    /\ pc = [p \in Procs |-> "idle"]
    /\ call = [p \in Procs |-> NoCall]
    /\ page = [p \in Procs |-> 0]
    /\ acc = [p \in Procs |-> << >>]
    /\ out = [p \in Procs |-> NoOut]
    /\ requests = [p \in Procs |-> << >>]

----------------------------------------------------------------------------
(* Specifications *)

InitAnonymizer ==
    /\ userNameMap = Empty
    /\ userCounter = 1
    /\ seen = [order |-> << >>, names |-> Empty]
    /\ last = NoOp

InitAnon ==
    /\ InitAnonymizer
    /\ upstreamN = 0
    /\ InitProcs
    /\ process = Connected
    /\ stderr = ConnectedLog
    /\ module = FALSE

NextAnon ==
    \/ AnonymizeUser
    \/ AnonymizeUsers
    \/ AnonymizeSubmission
    \/ AnonymizeSubmissions
    \/ AnonymizeAssignment
    \/ AnonymizeAssignments
    \/ Reset

\* the anonymizer's operations called directly, in any order
SpecAnon == InitAnon /\ [][NextAnon]_vars

InitClient ==
    /\ InitAnonymizer
    /\ upstreamN \in Sizes
    /\ InitProcs
    /\ process = Connected
    /\ stderr = ConnectedLog
    /\ module \in BOOLEAN

NextClient ==
    \/ \E c \in ClientCalls \cup PageCalls \cup OtherToolCalls \cup GatewayCalls : Invoke(1, c)
    \/ SectionResponds(1)
    \/ PageResponds(1)
    \/ CurrentPageResponds(1)
    \/ StyleguideResponds(1)
    \/ \E error \in Failures : StyleguideFails(1, error)
    \/ ModuleResponds(1)
    \/ \E hasRubric \in BOOLEAN : AssignmentResponds(1, hasRubric)
    \/ WriteResponds(1)
    \/ \E error \in Failures : RequestFails(1, error)

\* one caller: any tool or client method, against any upstream collection
SpecClient == InitClient /\ [][NextClient]_vars

Init ==
    /\ InitAnonymizer
    /\ upstreamN \in {PER_PAGE + 37}
    /\ InitProcs
    /\ process = Connected
    /\ stderr = ConnectedLog
    /\ module = FALSE

Next ==
    \E p \in Procs :
        \/ \E c \in ToolCalls : Invoke(p, c)
        \/ SectionResponds(p)
        \/ PageResponds(p)
        \/ RequestFails(p, NetworkFailure)

\* tool invocations in flight together, switching at their awaits
Spec == Init /\ [][Next]_vars

InitServer ==
    /\ InitAnonymizer
    /\ upstreamN \in Sizes
    /\ InitProcs
    /\ process \in {Started(env) : env \in Tokens}
    /\ stderr = << >>
    /\ module = FALSE

NextServer ==
    \/ ValidateConfiguration
    \/ ServerConnects
    \/ ServerConnectFails
    \/ \E c \in ClientCalls \cup PageCalls \cup OtherToolCalls \cup GatewayCalls : Invoke(1, c)
    \/ SectionResponds(1)
    \/ PageResponds(1)
    \/ CurrentPageResponds(1)
    \/ StyleguideResponds(1)
    \/ \E error \in Failures : StyleguideFails(1, error)
    \/ ModuleResponds(1)
    \/ \E hasRubric \in BOOLEAN : AssignmentResponds(1, hasRubric)
    \/ WriteResponds(1)
    \/ \E error \in Failures : RequestFails(1, error)

\* the process from its start: the module body of index.ts runs to its end
\* (synchronous code is not preempted), then calls arrive
SpecServer == InitServer /\ [][NextServer]_vars /\ WF_vars(ValidateConfiguration)

\* toggle-module-publish invocations on one module, in flight together
ToggleCall == CallOf("toggle-module-publish", "omitted", 0)

InitToggle ==
    /\ InitAnonymizer
    /\ upstreamN = 0
    /\ InitProcs
    /\ process = Connected
    /\ stderr = ConnectedLog
    /\ module = FALSE

NextToggle ==
    \E p \in Procs :
        \/ Invoke(p, ToggleCall)
        \/ ModuleResponds(p)
        \/ WriteResponds(p)
        \/ \E error \in Failures : RequestFails(p, error)

SpecToggle == InitToggle /\ [][NextToggle]_vars

\* fetchAllPages against an upstream that answers a page request with any number
\* of records, whatever per_page asked for
WalkCalls == {CallOf("fetchAllPages", "omitted", pp) : pp \in 1..MaxPerPage}

PageLengths == 0..(MaxPerPage + 1)

\* the upstream answers the pending page request 2xx with n records
PageAnswered(p, n) ==
    /\ pc[p] = "page"
    /\ page[p] <= MaxWalk
    /\ AfterPage(p, ClientResult(MethodOf(call[p].entry), OptionsOf(call[p]), AnonState,
                                 Slice(Pending(p).url, Len(acc[p]) + 1, Len(acc[p]) + n)))

InitWalk ==
    /\ InitAnonymizer
    /\ upstreamN = 0
    /\ InitProcs
    /\ process = Connected
    /\ stderr = ConnectedLog
    /\ module = FALSE

NextWalk ==
    \/ \E c \in WalkCalls : Invoke(1, c)
    \/ \E n \in PageLengths : PageAnswered(1, n)
    \/ \E error \in Failures : RequestFails(1, error)

SpecWalk == InitWalk /\ [][NextWalk]_vars

----------------------------------------------------------------------------
(* Pagination: completeness and order *)

PagedEntries == {"fetchAllPages", "list-students"}

\* the fields the anonymizer rewrites
PersonalFields == {"name", "display_name", "email"}

\* record `got` at some position of a result is the upstream record `sent`:
\* identical, or, where the call anonymizes, identical outside the rewritten fields
IsRecord(got, sent, c) ==
    IF c.entry = "fetchAllPages" \/ c.anonymous = "false"
    THEN got = sent
    ELSE /\ DOMAIN sent \subseteq DOMAIN got
         /\ \A k \in DOMAIN sent \ PersonalFields : got[k] = sent[k]

\* C1: when fetchAllPages or the list-students page loop returns, the caller holds
\* exactly the upstreamN records of the collection, the i-th result being the i-th
\* upstream record (pages concatenated in ascending order, nothing reordered,
\* dropped or deduplicated), and the reported total is upstreamN.
C1_PagesConcatenated ==
    \A p \in Procs :
        (pc[p] = "done" /\ call[p].entry \in PagedEntries) =>
            /\ out[p].status = "ok"
            /\ out[p].total = upstreamN
            /\ Len(out[p].records) = upstreamN
            /\ \A i \in 1..upstreamN :
                  IsRecord(out[p].records[i], Record(UrlOf(call[p]), i), call[p])

\* pages of 100, 100 and 37 were aggregated by the list-students loop: 237 in total
C1_Witness ==
    /\ pc[1] = "done"
    /\ call[1].entry = "list-students"
    /\ upstreamN = 2 * PER_PAGE + 37
    /\ out[1].total = 237
    /\ Len(requests[1]) = 3

----------------------------------------------------------------------------
(* Pseudonyms: determinism and first-seen numbering *)

\* C2: between two resets, every identity that was anonymized was returned under
\* one pseudonym only, the i-th identity seen for the first time under "Student i"
\* (so distinct identities have distinct pseudonyms); a direct anonymizeUser call
\* returns that pseudonym as name and display_name.
C2_FirstSeenNumbering ==
    /\ DOMAIN seen.names = Range(seen.order)
    /\ \A i, j \in 1..Len(seen.order) : i # j => seen.order[i] # seen.order[j]
    /\ \A i \in 1..Len(seen.order) : seen.names[seen.order[i]] = {"Student " \o ToStr(i)}
    /\ (last.op = "anonymizeUser" /\ TruthyId(last.in)) =>
          /\ seen.names[ToStr(last.in["id"])] = {last.out["name"]}
          /\ last.out["display_name"] = last.out["name"]

\* two identities were seen, the second one got "Student 2", and the identity seen
\* first has just been anonymized again
C2_Witness ==
    /\ Len(seen.order) = 2
    /\ last.op = "anonymizeUser"
    /\ TruthyId(last.in)
    /\ ToStr(last.in["id"]) = seen.order[1]
    /\ ToStr(last.in["id"]) \in DOMAIN last.preMap
    /\ last.out["name"] = "Student 1"

----------------------------------------------------------------------------
(* Interleaved tool invocations share one identity mapping *)

\* the user-shaped records inside one result record that the anonymizer rewrites
StudentAuthorsIn(submission) ==
    IF Has(submission, "submission_comments")
    THEN {c["author"] : c \in {d \in Range(submission["submission_comments"]) :
                                   Has(d, "author") /\ Has(d["author"], "role")
                                   /\ d["author"]["role"] = "student"}}
    ELSE {}

PeopleInSubmission(submission) ==
    (IF Has(submission, "user") THEN {submission["user"]} ELSE {})
    \cup StudentAuthorsIn(submission)

PeopleIn(url, record) ==
    CASE url = "users" -> {record}
      [] url = "assignments" ->
            (IF Has(record, "submission") THEN PeopleInSubmission(record["submission"]) ELSE {})
      [] OTHER -> PeopleInSubmission(record)

\* C3: however the invocations interleave at their awaits, no pseudonym belongs to
\* two identities, and every record an invocation has accumulated so far carries
\* the pseudonym the mapping holds for its identity now: no identity was ever
\* given a second pseudonym, by this invocation or by one running in between.
C3_OnePseudonymPerIdentity ==
    /\ \A a, b \in DOMAIN userNameMap : a # b => userNameMap[a] # userNameMap[b]
    /\ \A p \in Procs : \A i \in 1..Len(acc[p]) :
          \A u \in PeopleIn(UrlOf(call[p]), acc[p][i]) :
              TruthyId(u) =>
                  /\ ToStr(u["id"]) \in DOMAIN userNameMap
                  /\ u["name"] = userNameMap[ToStr(u["id"])]
                  /\ u["display_name"] = userNameMap[ToStr(u["id"])]

\* two page loops are both between their first and second page, each holding a
\* first page of records anonymized through the shared mapping
C3_Witness ==
    /\ pc[1] = "page" /\ pc[2] = "page"
    /\ call[1].entry = "list-students"
    /\ call[2].entry = "list-section-submissions"
    /\ Len(acc[1]) = PER_PAGE /\ Len(acc[2]) = PER_PAGE
    /\ userCounter > PER_PAGE \div 2

----------------------------------------------------------------------------
(* The tools the README lists under anonymization control *)

ReadmeTools ==
    {"list-students", "list-assignments", "list-assignment-submissions",
     "list-section-submissions", "list-rubric-assessments"}

\* record u left the anonymizer: it carries the mapping's pseudonym for its identity
IsAnonymized(u) ==
    /\ ToStr(u["id"]) \in DOMAIN userNameMap
    /\ Has(u, "name") /\ u["name"] = userNameMap[ToStr(u["id"])]
    /\ Has(u, "display_name") /\ u["display_name"] = userNameMap[ToStr(u["id"])]

\* C4: a tool of the README's list, invoked without anonymous=false, hands every
\* identity-bearing student record of the upstream response to the anonymizer
\* before formatting it: none is in the result under its real name.
C4_ReadmeToolsAnonymize ==
    \A p \in Procs :
        (pc[p] = "done" /\ call[p].entry \in ReadmeTools /\ call[p].anonymous # "false") =>
            \A i \in 1..Len(out[p].records) :
                \A u \in PeopleIn(UrlOf(call[p]), out[p].records[i]) :
                    TruthyId(u) => IsAnonymized(u)

\* list-rubric-assessments returned a submission whose user still has the real name
C4_RawRubricAssessments ==
    /\ pc[1] = "done"
    /\ call[1].entry = "list-rubric-assessments"
    /\ Len(out[1].records) > 0
    /\ out[1].records[1]["user"]["name"] = "Name1"
    /\ userNameMap = Empty

----------------------------------------------------------------------------
(* Roles *)

IsNonLearner(user) == Has(user, "role") /\ user["role"] # "student"

\* C5: no anonymizing operation touches a record whose role is not 'student': a
\* standalone user and a submission's user with another role come back as they
\* went in, a comment author with another role likewise, and anonymizeUser on
\* such a record leaves the mapping and the counter as they were.
C5_NonLearnersUntouched ==
    /\ (last.op = "anonymizeUser" /\ IsNonLearner(last.in)) =>
          /\ last.out = last.in
          /\ userNameMap = last.preMap
          /\ userCounter = last.preCounter
    /\ (last.op = "anonymizeSubmission" /\ Has(last.in, "user")
            /\ IsNonLearner(last.in["user"])) =>
          last.out["user"] = last.in["user"]
    /\ (last.op = "anonymizeSubmission" /\ Has(last.in, "submission_comments")) =>
          \A i \in 1..Len(last.in["submission_comments"]) :
              (Has(last.in["submission_comments"][i], "author")
                 /\ IsNonLearner(last.in["submission_comments"][i]["author"])) =>
                  last.out["submission_comments"][i] = last.in["submission_comments"][i]

\* anonymizeUser renamed a teacher "Student 1" and spent the first number on it
C5_TeacherRenamed ==
    /\ last.op = "anonymizeUser"
    /\ Has(last.in, "role") /\ last.in["role"] = "teacher"
    /\ last.in["name"] = "Alice"
    /\ last.preCounter = 1
    /\ last.out["name"] = "Student 1"
    /\ userCounter = 2

----------------------------------------------------------------------------
(* Comment authors *)

IssuedPseudonyms == {"Student " \o ToStr(k) : k \in 1..(userCounter - 1)}

\* the author of the returned comment carries a pseudonym instead of the display name
IsPseudonymized(comment) ==
    /\ Has(comment, "author")
    /\ Has(comment["author"], "display_name")
    /\ comment["author"]["display_name"] \in IssuedPseudonyms

HasRole(comment, role) ==
    Has(comment, "author") /\ Has(comment["author"], "role") /\ comment["author"]["role"] = role

\* every field of the comment but its author is returned as it was
SameCommentText(got, sent) ==
    /\ DOMAIN got = DOMAIN sent
    /\ \A k \in DOMAIN sent \ {"author"} : got[k] = sent[k]

CommentsOfLast == 1..Len(last.in["submission_comments"])
CommentIn(i) == last.in["submission_comments"][i]
CommentOut(i) == last.out["submission_comments"][i]
LastHasComments == last.op = "anonymizeSubmission" /\ Has(last.in, "submission_comments")

\* C6 as stated: a comment's author is pseudonymized if and only if its role is
\* 'student'; any other comment is returned whole, and the text is never changed.
C6_AuthorIffStudentRole ==
    LastHasComments =>
        /\ Len(last.out["submission_comments"]) = Len(last.in["submission_comments"])
        /\ \A i \in CommentsOfLast :
              /\ SameCommentText(CommentOut(i), CommentIn(i))
              /\ IsPseudonymized(CommentOut(i)) <=> HasRole(CommentIn(i), "student")
              /\ ~HasRole(CommentIn(i), "student") => CommentOut(i) = CommentIn(i)

\* C6 amended: a comment's author is pseudonymized if and only if its role is
\* 'student' and it carries a (truthy) id; every other comment, a student author
\* without id included, is returned whole, and the text is never changed.
C6_AuthorIffStudentWithId ==
    LastHasComments =>
        /\ Len(last.out["submission_comments"]) = Len(last.in["submission_comments"])
        /\ \A i \in CommentsOfLast :
              /\ SameCommentText(CommentOut(i), CommentIn(i))
              /\ IsPseudonymized(CommentOut(i)) <=>
                    (HasRole(CommentIn(i), "student") /\ TruthyId(CommentIn(i)["author"]))
              /\ ~(HasRole(CommentIn(i), "student") /\ TruthyId(CommentIn(i)["author"])) =>
                    CommentOut(i) = CommentIn(i)

\* a submission with a student's comment and a teacher's: the first author came
\* back as "Student 1", the second as it was
C6_Witness ==
    /\ LastHasComments
    /\ Len(last.in["submission_comments"]) = 2
    /\ HasRole(CommentIn(1), "student") /\ TruthyId(CommentIn(1)["author"])
    /\ HasRole(CommentIn(2), "teacher")
    /\ CommentOut(1)["author"]["display_name"] = "Student 1"
    /\ CommentOut(2)["author"]["display_name"] = "Tess"
    /\ CommentOut(1)["comment"] = "Well done"

----------------------------------------------------------------------------
(* The output never depends on the real name or email *)

\* user records that differ from `user` at most in name, display_name and the
\* value of email, having an email exactly when `user` has one
VariantsOf(user) ==
    {v \in Users :
        /\ DOMAIN v \ PersonalFields = DOMAIN user \ PersonalFields
        /\ \A k \in DOMAIN user \ PersonalFields : v[k] = user[k]
        /\ TruthyEmail(v) <=> TruthyEmail(user)}

PreState == [map |-> last.preMap, counter |-> last.preCounter, trace |-> << >>]

RealValues == Names \cup {"Bobby"} \cup {RealEmail(n) : n \in Names}

----------------------------------------------------------------------------
(* The anonymization option of the client's list methods *)

\* the response to the one request a list method makes
ResponseTo(p) == Serve(requests[p][1].url, requests[p][1].query)

\* C8: a list method of the client called with the option omitted or true returns
\* every identity-bearing record under the mapping's pseudonym; called with the
\* option false it returns the upstream response as it is and leaves the mapping
\* empty and the counter at 1, as they were before the call.
C8_AnonymizeUnlessFalse ==
    \A p \in Procs :
        (pc[p] = "done" /\ call[p].entry \in ListMethods) =>
            /\ Len(out[p].records) = Len(ResponseTo(p))
            /\ call[p].anonymous \in {"omitted", "true"} =>
                  \A i \in 1..Len(out[p].records) :
                      \A u \in PeopleIn(UrlOf(call[p]), out[p].records[i]) :
                          TruthyId(u) => IsAnonymized(u)
            /\ call[p].anonymous = "false" =>
                  /\ out[p].records = ResponseTo(p)
                  /\ userNameMap = Empty
                  /\ userCounter = 1

\* listRubricAssessments, called without the option, returned the first submission's
\* user as "Student 1"
C8_Witness ==
    /\ pc[1] = "done"
    /\ call[1] = CallOf("listRubricAssessments", "omitted", 0)
    /\ Len(out[1].records) > 0
    /\ ResponseTo(1)[1]["user"]["name"] = "Name1"
    /\ out[1].records[1]["user"]["name"] = "Student 1"

----------------------------------------------------------------------------
(* A failed page request *)

PageLoops == {"fetchAllPages", "list-students", "list-section-submissions", "list-assignments"}

\* the requests that read a collection (a page of it), as against a single resource
SingleResourceUrls ==
    {"pages/canvas-styleguide", "pages/syllabus", "module", "assignment", "resource"}

IsCollectionRequest(r) == r.url \notin SingleResourceUrls

PageRequests(p) == SelectSeq(requests[p], LAMBDA r : r.url # "section")

\* C9: the request that failed is the last one its invocation issued (it is not
\* issued again and no later page is asked for), the pages asked for are 1, 2, ...
\* each once, and the invocation ends in an error that carries none of the records
\* of the pages received before.
C9_AllOrNothingNoRetry ==
    \A p \in Procs :
        /\ \A i \in 1..Len(requests[p]) :
              (requests[p][i].status = "failed" /\ IsCollectionRequest(requests[p][i]))
                 => (i = Len(requests[p]) /\ pc[p] = "error")
        /\ call[p].entry \in PageLoops \ {"list-assignments"} =>
              \A i \in 1..Len(PageRequests(p)) : PageRequests(p)[i].query["page"] = i
        /\ (pc[p] = "error" /\ IsCollectionRequest(Pending(p))) =>
              /\ Pending(p).status = "failed"
              /\ out[p].status = "error"
              /\ out[p].records = << >>
              /\ out[p].total = 0

\* the list-students loop had received two full pages when its third request failed
C9_Witness ==
    /\ pc[1] = "error"
    /\ call[1].entry = "list-students"
    /\ Len(requests[1]) = 3
    /\ requests[1][3].status = "failed"
    /\ Len(acc[1]) = 2 * PER_PAGE
    /\ out[1].records = << >>

----------------------------------------------------------------------------
(* Number of page requests *)

CeilDiv(n, d) == (n + d - 1) \div d

FetchAllPagesDone(p) == pc[p] = "done" /\ call[p].entry = "fetchAllPages"

\* C10 as stated: fetchAllPages makes ceil(N/P) page requests, 1 when N = 0.
C10_CeilRequests ==
    \A p \in Procs :
        FetchAllPagesDone(p) =>
            Len(requests[p]) = IF upstreamN = 0 THEN 1 ELSE CeilDiv(upstreamN, PerPageOf(call[p]))

\* C10 amended: fetchAllPages makes floor(N/P) + 1 page requests: it stops at the
\* first page shorter than P, so a collection whose size is a positive multiple of
\* P costs one more request than ceil(N/P), answered by an empty page.
C10_FloorPlusOneRequests ==
    \A p \in Procs :
        FetchAllPagesDone(p) =>
            /\ Len(requests[p]) = (upstreamN \div PerPageOf(call[p])) + 1
            /\ \A i \in 1..Len(requests[p]) :
                  /\ requests[p][i].query["page"] = i
                  /\ requests[p][i].query["per_page"] = PerPageOf(call[p])

\* 200 records in pages of 100: pages 1 and 2 full, and a third request for an empty page
C10_Witness ==
    /\ FetchAllPagesDone(1)
    /\ upstreamN = 2 * DEFAULT_PER_PAGE
    /\ call[1].per_page = 0
    /\ Len(requests[1]) = 3
    /\ Len(out[1].records) = upstreamN

----------------------------------------------------------------------------
(* The message of a gateway failure *)

GatewayOperations == {"get", "post", "put", "delete"}

\* the entries that surface the gateway's error as it is: the four operations and
\* the client methods built on them
Unwrapped(c) == c.entry \in GatewayOperations \cup ListMethods \cup {"fetchAllPages"}

----------------------------------------------------------------------------
(* Failures seen by the caller of a handler *)

ToolEntries ==
    {"list-students", "list-section-submissions", "list-assignment-submissions",
     "list-assignments", "list-rubric-assessments", "list-quizzes", "list-rubrics",
     "list-assignment-groups", "get-rubric-statistics", "update-page-content",
     "patch-page-content", "apply-page-changes", "toggle-module-publish"}

OperationNames ==
    {"fetch students", "fetch section submissions", "fetch assignment submissions",
     "fetch assignments", "fetch rubric assessments", "fetch quizzes", "fetch rubrics",
     "fetch assignment groups", "fetch rubric statistics", "update page",
     "fetch page for patching", "apply page changes", "toggle module publish"}

FailedIn(p) == {i \in 1..Len(requests[p]) : requests[p][i].status = "failed"}

IsStyleguideFetch(r) == r.url = "pages/canvas-styleguide"

\* the failed request i of p is the last thing p did, and p's caller got one
\* failure naming the operation and carrying the gateway's message
SurfacesWrapped(p, i) ==
    /\ i = Len(requests[p])
    /\ pc[p] = "error"
    /\ out[p].status = "error"
    /\ out[p].records = << >>
    /\ handleError(requests[p][i].error) \notin {"", "undefined"}
    /\ \E name \in OperationNames :
          out[p].message = "Failed to " \o name \o ": " \o handleError(requests[p][i].error)

----------------------------------------------------------------------------
(* Suppressed failures *)

----------------------------------------------------------------------------
(* Reads and writes issued upstream *)

ReadOnlyEntries ==
    {"list-students", "list-section-submissions", "list-assignment-submissions",
     "list-assignments", "list-rubric-assessments", "list-quizzes", "list-rubrics",
     "list-assignment-groups", "get-rubric-statistics", "patch-page-content"}

WritesOf(p) == SelectSeq(requests[p], LAMBDA r : r.method # "GET")

\* C14: a read-only procedure (list-*, get-*, patch-page-content) issues nothing
\* but GET requests, however it ends.
C14_ReadOnlyIssuesOnlyGet ==
    \A p \in Procs :
        call[p].entry \in ReadOnlyEntries =>
            \A i \in 1..Len(requests[p]) : requests[p][i].method = "GET"

\* patch-page-content read the page and the styleguide, and returned
C14_Witness ==
    /\ call[1].entry = "patch-page-content"
    /\ pc[1] = "done"
    /\ Len(requests[1]) = 2
    /\ requests[1][1].url = "pages/syllabus"
    /\ requests[1][2].url = "pages/canvas-styleguide"
    /\ requests[1][2].status = "ok"

\* C15: an invocation issues at most one write (POST, PUT or DELETE);
\* apply-page-changes issues exactly one request, a PUT of the page whose body is
\* the new content, and no GET before it.
C15_AtMostOneWrite ==
    \A p \in Procs :
        /\ Len(WritesOf(p)) <= 1
        /\ pc[p] = "done" /\ call[p].entry = "toggle-module-publish" =>
              /\ Len(WritesOf(p)) = 1
              /\ requests[p][1].method = "GET"
        /\ call[p].entry = "apply-page-changes" =>
              /\ Len(requests[p]) = 1
              /\ requests[p][1].method = "PUT"
              /\ requests[p][1].url = "pages/" \o call[p].pageUrl
              /\ Has(requests[p][1].data.wiki_page, "body")
              /\ requests[p][1].data.wiki_page["body"] = call[p].body

\* apply-page-changes returned after its single PUT; toggle-module-publish is
\* the procedure that reads before its one write
C15_Witness ==
    /\ call[1].entry = "apply-page-changes"
    /\ pc[1] = "done"
    /\ Len(requests[1]) = 1
    /\ requests[1][1].method = "PUT"
    /\ requests[1][1].data.wiki_page.body = "<p>new</p>"

----------------------------------------------------------------------------
(* Collections read by the list tools *)

ListTools ==
    {"list-students", "list-section-submissions", "list-assignment-submissions",
     "list-assignments", "list-rubric-assessments", "list-quizzes", "list-rubrics",
     "list-assignment-groups"}

\* C16: the result of every list tool holds the records of all upstream pages:
\* as many records as the upstream collection has.
C16_CollectionsWalkedToCompletion ==
    \A p \in Procs :
        (pc[p] = "done" /\ call[p].entry \in ListTools) =>
            /\ out[p].total = upstreamN
            /\ Len(out[p].records) = upstreamN

\* list-assignment-submissions returned the first page of the upstream's default
\* size out of 37 submissions, after a single request
C16_FirstPageOnly ==
    /\ call[1].entry = "list-assignment-submissions"
    /\ pc[1] = "done"
    /\ upstreamN = 37
    /\ Len(requests[1]) = 1
    /\ out[1].total = UpstreamDefaultPerPage

----------------------------------------------------------------------------
(* Records without identity *)

LastLacksIdentity == last.op = "anonymizeUser" /\ ~TruthyId(last.in)

\* C17 as stated: a record without identity comes back from anonymizeUser
\* value-equal to the input, as a copy distinct from it, and nothing is thrown.
C17_PassThroughIsACopy ==
    LastLacksIdentity => (last.out = last.in /\ ~last.sameRef)

\* C17 amended: a record without identity comes back from anonymizeUser as the
\* input object itself (the same reference, hence value-equal), nothing is
\* thrown, and the mapping and the counter are as before.
C17_PassThroughIsTheInput ==
    LastLacksIdentity =>
        /\ last.out = last.in
        /\ last.sameRef
        /\ userNameMap = last.preMap
        /\ userCounter = last.preCounter

\* Bob, with an email and a display name but no id, after another identity had
\* been given a pseudonym
C17_Witness ==
    /\ LastLacksIdentity
    /\ ~Has(last.in, "id")
    /\ last.in["name"] = "Bob"
    /\ TruthyEmail(last.in)
    /\ last.out["email"] = "bob@uni.edu"
    /\ last.sameRef
    /\ last.preCounter = 2

----------------------------------------------------------------------------
(* reset() *)

\* C18: right after reset() the mapping is empty and the counter is 1; the
\* operation that follows starts from that state and numbers the identities it
\* returns 'Student 1', 'Student 2', ... in the order it first meets them,
\* whatever pseudonym they had before the reset.
C18_ResetRestartsNumbering ==
    /\ last.op = "reset" => (userNameMap = Empty /\ userCounter = 1)
    /\ last.afterReset =>
          /\ last.preMap = Empty
          /\ last.preCounter = 1
          /\ DOMAIN userNameMap = {seen.order[i] : i \in 1..Len(seen.order)}
          /\ \A i \in 1..Len(seen.order) :
                userNameMap[seen.order[i]] = "Student " \o ToStr(i)
          /\ userCounter = Len(seen.order) + 1

\* identity 2 was 'Student 2' before the reset and is 'Student 1' after it
C18_Witness ==
    /\ last.afterReset
    /\ last.op = "anonymizeUser"
    /\ TruthyId(last.in) /\ last.in["id"] = 2
    /\ last.preReset = [k \in {"2"} |-> "Student 2"]
    /\ last.out["name"] = "Student 1"
    /\ userCounter = 2

----------------------------------------------------------------------------
(* Startup without a credential *)

TokenAbsent == ApiToken(process.env) = ""

NothingDispatched ==
    \A p \in Procs :
        pc[p] = "idle" /\ call[p] = NoCall /\ requests[p] = << >> /\ out[p] = NoOut

\* C19: when CANVAS_API_TOKEN is unset or empty at process start, the process
\* exits with code 1 and never reaches the connect of its transport: at no time
\* is the server connecting or connected, no call is dispatched, no HTTP request
\* is issued and no call returns an error.
C19_MissingTokenIsFatal ==
    /\ [](TokenAbsent =>
            /\ process.state \in {"start", "exited"}
            /\ NothingDispatched)
    /\ [](TokenAbsent => <>(process.state = "exited" /\ process.exitCode = 1))

\* CANVAS_API_TOKEN was unset: the process has exited with code 1
C19_Witness ==
    /\ process.env = UNDEF
    /\ process.state = "exited"
    /\ process.exitCode = 1
    /\ NothingDispatched

----------------------------------------------------------------------------
(* Rendering of empty results *)

NoneFoundSentences ==
    {"No students found in this course.",
     "No submissions found for this assignment in this section.",
     "No assignments found in this course.",
     "No quizzes found in this course.",
     "No rubrics found for this course"}

\* C20: a list tool that ends with zero records returns a 'none found' sentence,
\* never an empty text nor an empty list literal, and one that ends with records
\* never returns a 'none found' sentence.
C20_EmptyRendersNoneFound ==
    \A p \in Procs :
        (pc[p] = "done" /\ call[p].entry \in ListTools) =>
            /\ out[p].text \notin {"", "[]"}
            /\ out[p].total = 0 <=> out[p].text \in NoneFoundSentences

\* list-assignment-groups on a course without groups returned the text "[]"
C20_EmptyListLiteral ==
    /\ call[1].entry = "list-assignment-groups"
    /\ pc[1] = "done"
    /\ upstreamN = 0
    /\ out[1].total = 0
    /\ out[1].text = "[]"

----------------------------------------------------------------------------
(* The credential in messages, results and log lines *)

CredentialTexts == {Credential, "Bearer " \o Credential}

\* a logged object that carries the credential: one with the configuration of
\* the request, whose Authorization header is the token
CarriesCredential(detail) ==
    Has(detail, "config") /\ detail["config"]["headers"]["Authorization"] \in CredentialTexts

\* C21: no line written to the diagnostic log, no error message raised to a
\* caller and no tool result contains the credential or an object carrying it.
C21_CredentialNeverSurfaced ==
    /\ \A i \in 1..Len(stderr) :
          stderr[i].text \notin CredentialTexts /\ ~CarriesCredential(stderr[i].detail)
    /\ \A p \in Procs :
          /\ out[p].message \notin CredentialTexts
          /\ Has(out[p], "text") => out[p].text \notin CredentialTexts

\* the list-assignments handler of index.ts met a network failure on its second
\* page and logged the AxiosError with the configuration of the request
C21_ErrorObjectLogged ==
    /\ call[1].entry = LEGACY_LIST_ASSIGNMENTS
    /\ pc[1] = "error"
    /\ Len(requests[1]) = 2
    /\ stderr[Len(stderr)].text = "Full error details:"
    /\ stderr[Len(stderr)].detail = NetworkFailure
    /\ stderr[Len(stderr)].detail.config.headers.Authorization = "Bearer secret"

----------------------------------------------------------------------------
(* fetchAllPages: when the walk ends *)

\* the step is a 2xx answer to the pending page request of invocation 1
PageStep == pc[1] = "page" /\ pc'[1] \in {"page", "done"} /\ requests'[1] # requests[1]

\* the number of records that answer carried
Received == Len(acc'[1]) - Len(acc[1])

\* a request for the next page number follows and the walk goes on
NextPageRequested ==
    /\ pc'[1] = "page"
    /\ Len(requests'[1]) = Len(requests[1]) + 1
    /\ requests'[1][Len(requests'[1])].status = "pending"
    /\ requests'[1][Len(requests'[1])].query["page"] = Pending(1).query["page"] + 1

\* the walk ends with no further request
WalkEnds == pc'[1] = "done" /\ Len(requests'[1]) = Len(requests[1])

\* C22 as stated: the walk is complete exactly when a page has strictly fewer
\* records than per_page; a page of per_page records or more is followed by a
\* request for the next page.
C22_CompleteIffShorter ==
    [][PageStep =>
         /\ Received < PerPageOf(call[1]) => WalkEnds
         /\ Received >= PerPageOf(call[1]) => NextPageRequested]_vars

\* C22 amended: the walk is complete exactly when a page's record count differs
\* from per_page: a shorter page (an empty one too) and a longer page end the loop
\* with no further request, a page of exactly per_page records is followed by a
\* request for the next page number; pages of sizes [P, P, k], k < P, give
\* exactly 3 requests.
C22_CompleteIffDiffers ==
    [][PageStep =>
         /\ Received # PerPageOf(call[1]) => WalkEnds
         /\ Received = PerPageOf(call[1]) => NextPageRequested
         /\ (Len(acc[1]) = 2 * PerPageOf(call[1]) /\ Len(requests[1]) = 3
               /\ Received < PerPageOf(call[1])) => Len(requests'[1]) = 3]_vars

\* two full pages and then a page one record longer than per_page: the walk
\* ended there, after 3 requests
C22_Witness ==
    /\ FetchAllPagesDone(1)
    /\ call[1].per_page = 2
    /\ Len(requests[1]) = 3
    /\ Len(out[1].records) = 2 * 2 + 3

----------------------------------------------------------------------------
(* fetchAllPages: termination *)

\* the step is a failed answer to the pending page request of invocation 1
FailureStep == pc[1] = "page" /\ pc'[1] = "error"

\* C23: a failure, or a page whose length differs from per_page, ends the walk
\* at once (it raises or returns); a page of exactly per_page records never ends
\* it, however many came before: the request for the next page number is issued.
C23_EndsOnlyOnFailureOrOddPage ==
    [][/\ FailureStep =>
            /\ out'[1].status = "error"
            /\ Len(requests'[1]) = Len(requests[1])
       /\ (PageStep /\ Received # PerPageOf(call[1])) => WalkEnds
       /\ (PageStep /\ Received = PerPageOf(call[1])) =>
            /\ NextPageRequested
            /\ requests'[1][Len(requests'[1])].query["page"] = Len(requests[1]) + 1
            /\ pc'[1] \notin {"done", "error"}]_vars

\* the upstream has answered MaxWalk full pages and the walk is waiting for
\* page MaxWalk + 1
C23_Witness ==
    /\ call[1].entry = "fetchAllPages"
    /\ pc[1] = "page"
    /\ Len(acc[1]) = MaxWalk * PerPageOf(call[1])
    /\ Len(requests[1]) = MaxWalk + 1
    /\ Pending(1).query["page"] = MaxWalk + 1

----------------------------------------------------------------------------
(* The query parameters of a walk *)

\* the page requests of invocation p, in the order of issue
WalkRequests(p) ==
    SelectSeq(requests[p], LAMBDA r : IsCollectionRequest(r) /\ r.url # "section")

\* C24: in every walk (fetchAllPages or a handler's page loop) the k-th page
\* request carries page = k and the walk's per_page as top-level query
\* parameters, and the caller's other parameters at the same top level, none
\* nested under another key.
C24_PageParametersTopLevel ==
    \A p \in Procs :
        LoopOf(call[p]) # "single" =>
            \A i \in 1..Len(WalkRequests(p)) :
                /\ Has(WalkRequests(p)[i].query, "page")
                /\ Has(WalkRequests(p)[i].query, "per_page")
                /\ WalkRequests(p)[i].query["page"] = i
                /\ WalkRequests(p)[i].query["per_page"] = PerPageOf(call[p])
                /\ ~Has(WalkRequests(p)[i].query, "params")

\* list-assignments of tools/assignments.ts asked for a course of 137 assignments
\* with a query whose only key is `params`, and returned the upstream's first
\* default-sized page as the whole collection
C24_NestedParams ==
    /\ call[1].entry = "list-assignments"
    /\ pc[1] = "done"
    /\ upstreamN = PER_PAGE + 37
    /\ Len(requests[1]) = 1
    /\ DOMAIN requests[1][1].query = {"params"}
    /\ requests[1][1].query["params"] = [per_page |-> PER_PAGE, page |-> 1]
    /\ out[1].total = UpstreamDefaultPerPage

----------------------------------------------------------------------------
(* get-rubric-statistics: the rubric is checked before the submissions are read *)

RubricStatistics(p) == call[p].entry = "get-rubric-statistics"

\* the requests for the assignment's submissions
SubmissionRequests(p) == SelectSeq(requests[p], LAMBDA r : r.url # "assignment")

\* C25: when the assignment fetched by get-rubric-statistics carries no rubric
\* the handler fails with the 'No rubric found for this assignment' message and
\* has asked for no submissions; whenever a submissions request exists, the
\* assignment request before it was answered with a rubric.
C25_RubricCheckedBeforeWalk ==
    \A p \in Procs :
        RubricStatistics(p) =>
            /\ (Has(requests[p][1], "rubric") /\ ~requests[p][1].rubric) =>
                  /\ pc[p] = "error"
                  /\ out[p].status = "error"
                  /\ out[p].message = "Failed to fetch rubric statistics: "
                                          \o "No rubric found for this assignment"
                  /\ Len(requests[p]) = 1
            /\ Len(SubmissionRequests(p)) > 0 =>
                  /\ requests[p][1].url = "assignment"
                  /\ requests[p][1].status = "ok"
                  /\ requests[p][1].rubric
                  /\ \A i \in 2..Len(requests[p]) : requests[p][i].url # "assignment"

\* an assignment without rubric: the handler has failed after its one request
C25_Witness ==
    /\ RubricStatistics(1)
    /\ pc[1] = "error"
    /\ Len(requests[1]) = 1
    /\ requests[1][1].status = "ok"
    /\ ~requests[1][1].rubric
    /\ out[1].message = "Failed to fetch rubric statistics: No rubric found for this assignment"

----------------------------------------------------------------------------
(* anonymizeUser applied to its own output *)

\* anonymizeUser applied, in the state the last operation left, to what that
\* operation returned
Reapplied == anonymizeUser(AnonState, last.out)

\* C26: anonymizeUser applied to the output of anonymizeUser returns a record
\* equal to that output, field by field, and leaves the identity mapping and the
\* counter as the first application left them.
C26_AnonymizeUserIdempotent ==
    last.op = "anonymizeUser" =>
        /\ Reapplied.out = last.out
        /\ Reapplied.map = userNameMap
        /\ Reapplied.counter = userCounter

\* Alice, identity 1 with an e-mail address, was just given 'Student 1'
C26_Witness ==
    /\ last.op = "anonymizeUser"
    /\ TruthyId(last.in) /\ last.in["id"] = 1 /\ TruthyEmail(last.in)
    /\ last.in["name"] = "Alice"
    /\ last.preMap = Empty
    /\ last.out["name"] = "Student 1"
    /\ last.out["email"] = "student1@example.com"
    /\ userCounter = 2

----------------------------------------------------------------------------
(* One identity, one name, within an output *)

LastOnSubmissions == last.op \in {"anonymizeSubmission", "anonymizeSubmissions"}

\* the submissions the last operation was given, and the ones it returned
SubsIn == IF last.op = "anonymizeSubmission" THEN <<last.in>> ELSE last.in
SubsOut == IF last.op = "anonymizeSubmission" THEN <<last.out>> ELSE last.out

HasUserWithId(submission) == Has(submission, "user") /\ TruthyId(submission["user"])

CommentsOf(submission) ==
    IF Has(submission, "submission_comments") THEN submission["submission_comments"] ELSE << >>

AuthorIs(comment, id) ==
    Has(comment, "author") /\ TruthyId(comment["author"]) /\ comment["author"]["id"] = id

\* C27: in the output of anonymizeSubmission(s), an identity that was given a
\* pseudonym as the user of a submission carries that pseudonym wherever else it
\* appears: as the user of another submission and as the author of a comment.
C27_OneNamePerIdentity ==
    LastOnSubmissions =>
        \A i \in 1..Len(SubsIn) :
            HasUserWithId(SubsIn[i]) =>
                \A j \in 1..Len(SubsIn) :
                    /\ (HasUserWithId(SubsIn[j])
                           /\ SubsIn[j]["user"]["id"] = SubsIn[i]["user"]["id"]) =>
                          SubsOut[j]["user"]["name"] = SubsOut[i]["user"]["name"]
                    /\ \A k \in 1..Len(CommentsOf(SubsIn[j])) :
                          AuthorIs(CommentsOf(SubsIn[j])[k], SubsIn[i]["user"]["id"]) =>
                              CommentsOf(SubsOut[j])[k]["author"]["display_name"]
                                  = SubsOut[i]["user"]["name"]

\* Dave's submission with a comment of his own: the user came back as
\* 'Student 1', the author of the comment as 'Dave'
C27_SubmitterNamedInComment ==
    /\ last.op = "anonymizeSubmission"
    /\ HasUserWithId(last.in)
    /\ last.in["user"]["name"] = "Dave"
    /\ last.out["user"]["name"] = "Student 1"
    /\ Len(CommentsOf(last.in)) = 1
    /\ AuthorIs(CommentsOf(last.in)[1], last.in["user"]["id"])
    /\ CommentsOf(last.out)[1]["author"]["display_name"] = "Dave"

----------------------------------------------------------------------------
(* What anonymization leaves as it was *)

\* a returned user record against the one passed: the same record, or one that
\* differs from it in name, display_name and email only
FrameUser(got, sent) ==
    \/ got = sent
    \/ /\ DOMAIN sent \subseteq DOMAIN got
       /\ DOMAIN got \subseteq DOMAIN sent \cup PersonalFields
       /\ \A k \in DOMAIN sent \ PersonalFields : got[k] = sent[k]

FrameComment(got, sent) ==
    /\ DOMAIN got = DOMAIN sent
    /\ \A k \in DOMAIN sent \ {"author"} : got[k] = sent[k]
    /\ Has(sent, "author") => FrameUser(got["author"], sent["author"])

FrameSubmission(got, sent) ==
    /\ DOMAIN got = DOMAIN sent
    /\ \A k \in DOMAIN sent \ {"user", "submission_comments"} : got[k] = sent[k]
    /\ Has(sent, "user") => FrameUser(got["user"], sent["user"])
    /\ Has(sent, "submission_comments") =>
          /\ Len(got["submission_comments"]) = Len(sent["submission_comments"])
          /\ \A i \in 1..Len(sent["submission_comments"]) :
                FrameComment(got["submission_comments"][i], sent["submission_comments"][i])

FrameAssignment(got, sent) ==
    /\ DOMAIN got = DOMAIN sent
    /\ \A k \in DOMAIN sent \ {"submission"} : got[k] = sent[k]
    /\ Has(sent, "submission") => FrameSubmission(got["submission"], sent["submission"])

\* C28: what anonymizeUser, anonymizeSubmission and anonymizeAssignment return
\* equals what they were given on every field but name, display_name and email
\* of the user records in it (every id is the same), and the record given is not
\* written to: when the very object passed is returned, it is as it was.
C28_OnlyPersonalFieldsChange ==
    /\ last.op = "anonymizeUser" => FrameUser(last.out, last.in)
    /\ last.op = "anonymizeSubmission" => FrameSubmission(last.out, last.in)
    /\ last.op = "anonymizeAssignment" => FrameAssignment(last.out, last.in)
    /\ last.sameRef => last.out = last.in

\* Dave's submission with a comment by the student Carol: both came back under a
\* pseudonym, with the ids, the score and the comment text as they were
C28_Witness ==
    /\ last.op = "anonymizeSubmission"
    /\ HasUserWithId(last.in)
    /\ last.in["user"]["name"] = "Dave"
    /\ last.out["user"]["name"] \in IssuedPseudonyms
    /\ last.out["user"]["id"] = 1
    /\ last.out["id"] = 10 /\ last.out["score"] = 8
    /\ Len(CommentsOf(last.in)) = 1
    /\ IsStudentAuthor(CommentsOf(last.in)[1])
    /\ CommentsOf(last.out)[1]["author"]["display_name"] \in IssuedPseudonyms
    /\ CommentsOf(last.out)[1]["author"]["id"] = 1
    /\ CommentsOf(last.out)[1]["comment"] = "Well done"
    /\ ~last.sameRef

----------------------------------------------------------------------------
(* The counter and the mapping *)

\* C29: in every state of the anonymizer the counter is the number of mapped
\* identities plus 1 and the pseudonyms in the mapping are exactly 'Student 1'
\* to 'Student n', n the number of mapped identities; anonymizeUser on a record
\* without identity leaves both as they were.
C29_CounterTracksMapping ==
    /\ userCounter = Cardinality(DOMAIN userNameMap) + 1
    /\ Range(userNameMap) =
          {"Student " \o ToStr(k) : k \in 1..Cardinality(DOMAIN userNameMap)}
    /\ (last.op = "anonymizeUser" /\ ~TruthyId(last.in)) =>
          /\ userCounter = last.preCounter
          /\ userNameMap = last.preMap

\* two identities are mapped, and the last call, on a record with the falsy id
\* 0, took no number
C29_Witness ==
    /\ last.op = "anonymizeUser"
    /\ Has(last.in, "id") /\ last.in["id"] = 0
    /\ Cardinality(DOMAIN userNameMap) = 2
    /\ userCounter = 3
    /\ Range(userNameMap) = {"Student 1", "Student 2"}

----------------------------------------------------------------------------
(* toggle-module-publish, two at a time *)

Toggled(p) == call[p].entry = "toggle-module-publish" /\ pc[p] = "done"

\* p and q are the two invocations that have written; both completed
TwoToggled(p, q) ==
    /\ p # q
    /\ Toggled(p) /\ Toggled(q)
    /\ \A r \in Procs \ {p, q} : pc[r] # "done"

\* what invocation p read as the module's published state
ReadBy(p) == acc[p][1].published

\* the step in which the PUT of invocation p is answered and p returns
WriteStep(p) == pc[p] = "write" /\ pc'[p] = "done"

Reports(p, published) ==
    out'[p].text = "Module is now " \o (IF published THEN "published" ELSE "unpublished")

\* C30 as stated: after two completed invocations the module is as it was before
\* them (unpublished), and each invocation reports the negation of the module's
\* state at the moment of its write.
C30_TwoTogglesCancel ==
    /\ [](\A p, q \in Procs : TwoToggled(p, q) => module = FALSE)
    /\ [][\A p \in Procs : WriteStep(p) => Reports(p, ~module)]_vars

\* C30 amended: each invocation writes, and reports, the negation of the state it
\* read; after two completed invocations the module is as it was before them
\* exactly when one of them read what the other had written (their reads
\* differ), and it is the negation of its state before when both read before
\* either wrote.
C30_TogglesWhatItRead ==
    /\ [](\A p, q \in Procs :
            TwoToggled(p, q) => (module = FALSE <=> ReadBy(p) # ReadBy(q)))
    /\ [][\A p \in Procs :
            WriteStep(p) => (module' = ~ReadBy(p) /\ Reports(p, ~ReadBy(p)))]_vars

\* both invocations read the module unpublished, both wrote published: the
\* module is published after two toggles, and the second reported a change it
\* did not make
C30_Witness ==
    /\ TwoToggled(1, 2)
    /\ ReadBy(1) = FALSE /\ ReadBy(2) = FALSE
    /\ module = TRUE
    /\ out[1].text = "Module is now published"
    /\ out[2].text = "Module is now published"

====
